---- MODULE Spec2Model ----
(***************************************************************************)
(* zusischewe ("ZuSi schlechtes Wetter"): a batch editor of ZuSi timetable  *)
(* files.  The model covers src/date.rs (Datetime) and src/main.rs (consist *)
(* classification, the three mutation steps, modify_file and the batch loop *)
(* of modify).                                                              *)
(*                                                                          *)
(* Numbers.  f32 values are modelled as exact rationals [n, d] in lowest    *)
(* terms; every input of the model is a short binary or decimal fraction,   *)
(* and f32 rounding is not modelled.  exp() is a fixed-point Taylor series  *)
(* in thousandths.  A string attribute that holds a number or a time is     *)
(* modelled by its content: the number it denotes, or the six fields of     *)
(* "YYYY-MM-DD HH:MM:SS"; parsing validates and converts, formatting        *)
(* converts back.                                                           *)
(***************************************************************************)
EXTENDS Integers, Sequences, FiniteSets, TLC

VARIABLES
    \* ---- modify / modify_file (src/main.rs) ----
    cmd,        \* the Modify arguments
    dir,        \* fs::read_dir(&cmd.directory): sequence of [ext]
    disk,       \* file contents, one per directory entry
    idx,        \* number of directory entries the loop has consumed
    pc,         \* position inside modify / modify_file
    tree,       \* modify_file's `tree`
    steps,      \* per file: the calls modify_file made for it, in order
    calls,      \* per file: how often modify_file was invoked on it
    outcome,    \* per file: "none", "ok" (Ok(())) or "err"
    reported,   \* files whose failure inspect_err printed, in order
    persisted,  \* files whose write_file completed, in order
    rnd,        \* the draws and the delay of the current file's delay step
    zsw,        \* the file contents before the run (what the `_zsw` copy keeps)
    \* ---- function-level runs ----
    arg,        \* the arguments of the function under test
    ret,        \* its result
    \* ---- time values ----
    t0,         \* the initial time value
    dt,         \* a Datetime, advanced by Datetime::inc_seconds
    ank,        \* an `Ank` attribute, advanced as delay_entry does (chrono)
    incs,       \* the increments applied to dt so far, in order
    delays      \* the delays applied to ank so far, in order

vars == <<cmd, dir, disk, idx, pc, tree, steps, calls, outcome, reported,
          persisted, rnd, zsw, arg, ret, t0, dt, ank, incs, delays>>

batchVars == <<cmd, dir, disk, idx, pc, tree, steps, calls, outcome, reported,
               persisted, rnd, zsw>>
fnVars == <<arg, ret>>
timeVars == <<t0, dt, ank, incs, delays>>

Idle == [idle |-> TRUE]

(***************************************************************************)
(* Bounds                                                                   *)
(***************************************************************************)
MaxFiles == 2       \* directory entries in the batch runs
MaxNodes == 4       \* elements and text nodes below a consist
MaxEntries == 3     \* children of `Zug` in the delay_entry / delay_departures runs
MaxIncs == 2        \* successive additions to one time value

(***************************************************************************)
(* Arithmetic helpers                                                       *)
(***************************************************************************)
Min(a, b) == IF a <= b THEN a ELSE b

Max(a, b) == IF a >= b THEN a ELSE b

Abs(a) == IF a < 0 THEN -a ELSE a

RECURSIVE Gcd(_, _)
Gcd(a, b) == IF b = 0 THEN a ELSE Gcd(b, a % b)

\* An f32, as an exact rational in lowest terms with a positive denominator.
Rat(n, d) ==
    LET s == IF d < 0 THEN -1 ELSE 1
        g == Gcd(Abs(n), Abs(d))
    IN  [n |-> (s * n) \div g, d |-> (s * d) \div g]

RInt(k) == [n |-> k, d |-> 1]

RMul(a, b) == Rat(a.n * b.n, a.d * b.d)

RDiv(a, b) == Rat(a.n * b.d, a.d * b.n)

RAdd(a, b) == Rat(a.n * b.d + b.n * a.d, a.d * b.d)

RLess(a, b) == a.n * b.d < b.n * a.d

\* f32::min
RMin(a, b) == IF RLess(b, a) THEN b ELSE a

\* f32::max
RMax(a, b) == IF RLess(a, b) THEN b ELSE a

\* `as i64` of a float: truncation toward zero.
TruncI64(a) == IF a.n >= 0 THEN a.n \div a.d ELSE -((-a.n) \div a.d)

\* `as u32` of a float: truncation toward zero, negative values saturate to 0.
TruncU32(a) == IF a.n <= 0 THEN 0 ELSE a.n \div a.d

(***************************************************************************)
(* src/date.rs: Datetime                                                    *)
(***************************************************************************)
Datetime(y, mo, d, h, mi, s) ==
    [year |-> y, month |-> mo, day |-> d, hour |-> h, minute |-> mi, second |-> s]

\* A bug inc_seconds could have: the current `second` is left out of the total.
inc_seconds_no_second(self, inc) ==
    LET total == self.hour * 3600 + self.minute * 60 + inc
        hour == Min(total \div 3600, 23)
        total1 == total - hour * 3600
        minute == Min(total1 \div 60, 59)
        total2 == total1 - minute * 60
    IN  [self EXCEPT !.hour = hour, !.minute = minute, !.second = Min(total2, 59)]

\* Datetime::inc_seconds.  The date fields are not touched.
inc_seconds(self, inc) ==
    LET total == self.hour * 3600 + self.minute * 60 + self.second + inc
        hour == Min(total \div 3600, 23)
        total1 == total - hour * 3600
        minute == Min(total1 \div 60, 59)
        total2 == total1 - minute * 60
    IN  [self EXCEPT !.hour = hour, !.minute = minute, !.second = Min(total2, 59)]

(***************************************************************************)
(* chrono::NaiveDateTime as src/main.rs uses it: parse_from_str with        *)
(* "%Y-%m-%d %H:%M:%S", checked_add_signed, the difference of two values,   *)
(* and format.  A NaiveDateTime is [days, secs]: days since 2020-01-01 and  *)
(* seconds since midnight.                                                  *)
(***************************************************************************)
IsLeap(y) == (y % 4 = 0 /\ y % 100 # 0) \/ y % 400 = 0

DaysInMonth(y, m) ==
    IF m = 2 THEN (IF IsLeap(y) THEN 29 ELSE 28)
    ELSE IF m \in {4, 6, 9, 11} THEN 30 ELSE 31

DaysInYear(y) == IF IsLeap(y) THEN 366 ELSE 365

RECURSIVE DaysBeforeYear(_)
DaysBeforeYear(y) == IF y <= 2020 THEN 0 ELSE DaysBeforeYear(y - 1) + DaysInYear(y - 1)

RECURSIVE DaysBeforeMonth(_, _)
DaysBeforeMonth(y, m) ==
    IF m <= 1 THEN 0 ELSE DaysBeforeMonth(y, m - 1) + DaysInMonth(y, m - 1)

\* The fields of a time string that parse_from_str accepts.
ValidFields(s) ==
    /\ s.year >= 2020 /\ s.year <= 9999
    /\ s.month \in 1..12
    /\ s.day >= 1 /\ s.day <= DaysInMonth(s.year, s.month)
    /\ s.hour \in 0..23 /\ s.minute \in 0..59 /\ s.second \in 0..59

\* NaiveDateTime::parse_from_str: Err for a malformed string.
parse_from_str(a) ==
    IF a.st = "ok" /\ ValidFields(a.v)
    THEN [ok |-> TRUE,
          v |-> [days |-> DaysBeforeYear(a.v.year) + DaysBeforeMonth(a.v.year, a.v.month)
                          + a.v.day - 1,
                 secs |-> a.v.hour * 3600 + a.v.minute * 60 + a.v.second]]
    ELSE [ok |-> FALSE]

\* A bug the addition could have: the time saturates at the end of the day
\* (what Datetime::inc_seconds does).
checked_add_signed_saturating(t, delta) ==
    [days |-> t.days, secs |-> Max(0, Min(t.secs + delta, 86399))]

\* NaiveDateTime::checked_add_signed(TimeDelta::seconds(delta)); the model's
\* values are far from chrono's range, so it is always Some.
checked_add_signed(t, delta) ==
    LET total == t.secs + delta
        carry == IF total >= 0 THEN total \div 86400 ELSE -((86399 - total) \div 86400)
    IN  [days |-> t.days + carry, secs |-> total - carry * 86400]

\* departure - arrival, num_seconds()
SubSeconds(a, b) == (a.days - b.days) * 86400 + (a.secs - b.secs)

RECURSIVE YearOf(_, _)
YearOf(days, y) == IF days < DaysInYear(y) THEN y ELSE YearOf(days - DaysInYear(y), y + 1)

RECURSIVE MonthOf(_, _, _)
MonthOf(days, y, m) ==
    IF days < DaysInMonth(y, m) THEN m ELSE MonthOf(days - DaysInMonth(y, m), y, m + 1)

\* NaiveDateTime::format("%Y-%m-%d %H:%M:%S").to_string()
format(t) ==
    LET y == YearOf(t.days, 2020)
        inYear == t.days - DaysBeforeYear(y)
        m == MonthOf(inYear, y, 1)
        d == inYear - DaysBeforeMonth(y, m) + 1
    IN  [st |-> "ok",
         v |-> Datetime(y, m, d, t.secs \div 3600, (t.secs % 3600) \div 60, t.secs % 60)]

\* Attribute values: absent, a malformed string, or a well-formed string.
Absent == [st |-> "absent"]

Bad == [st |-> "bad"]

Str(v) == [st |-> "ok", v |-> v]

(***************************************************************************)
(* Consist trees.  The children of a `FahrzeugVarianten` element, to any    *)
(* depth, as the sequence of their nodes in document order; each node      *)
(* carries its depth below the consist (1 for the consist's own children). *)
(* A node is an element (name, attribute `Dateiname`) or a non-element     *)
(* XMLNode (text, comment).  A `Dateiname` is a sequence of characters.    *)
(***************************************************************************)
Node(elem, name, dateiname, depth) ==
    [elem |-> elem, name |-> name, Dateiname |-> dateiname, depth |-> depth]

lok == <<"l", "o", "k">>

\* The node kinds of the model's consists: vehicles without `Dateiname`, with one
\* that contains "lok" away from its start, with one that differs from it in case;
\* the two group elements; an element outside the vocabulary; a text node.
NodeKinds ==
    { Node(TRUE, "Datei", Absent, 1),
      Node(TRUE, "Datei", Str(<<"e", "l", "o", "k">>), 1),
      Node(TRUE, "Datei", Str(<<"L", "o", "k">>), 1),
      Node(TRUE, "FahrzeugInfo", Absent, 1),
      Node(TRUE, "FahrzeugVarianten", Absent, 1),
      Node(TRUE, "Fahrzeug", Absent, 1),
      Node(FALSE, "", Absent, 1) }

\* The depths the next node of document order may have: a child of the last node
\* (elements only), a sibling of it, or a sibling of one of its ancestors.
NextDepths(f) ==
    IF f = <<>> THEN {1}
    ELSE 1..(f[Len(f)].depth + (IF f[Len(f)].elem THEN 1 ELSE 0))

\* The last node of the subtree of node i (i = 0: the consist itself).
SubtreeEnd(t, i) ==
    LET d == IF i = 0 THEN 0 ELSE t[i].depth
        stops == { k \in (i + 1)..Len(t) : t[k].depth <= d }
    IN  IF stops = {} THEN Len(t) ELSE (CHOOSE k \in stops : \A m \in stops : k <= m) - 1

\* element.children of node i, in document order, as node indices.
Children(t, i) ==
    LET d == IF i = 0 THEN 0 ELSE t[i].depth
        last == SubtreeEnd(t, i)
        IsChild(k) == k > i /\ k <= last /\ t[k].depth = d + 1
    IN  SelectSeq([k \in 1..Len(t) |-> k], IsChild)

\* str::contains
Contains(s, pat) ==
    \E k \in 1..(Len(s) - Len(pat) + 1) : SubSeq(s, k, k + Len(pat) - 1) = pat

Ok(v) == [ok |-> TRUE, v |-> v]

Err(e) == [ok |-> FALSE, err |-> e]

\* A bug is_wagon_locomotive could have: starts_with instead of contains.
is_wagon_locomotive_starts_with(data_tag) ==
    IF data_tag.Dateiname.st = "absent" THEN Err("MissingAttribute")
    ELSE Ok(Len(data_tag.Dateiname.v) >= Len(lok)
            /\ SubSeq(data_tag.Dateiname.v, 1, Len(lok)) = lok)

\* is_wagon_locomotive
is_wagon_locomotive(data_tag) ==
    IF data_tag.Dateiname.st = "absent" THEN Err("MissingAttribute")
    ELSE Ok(Contains(data_tag.Dateiname.v, lok))

\* Element::get_child: the first child element of that name, 0 for None.
get_child(t, i, name) ==
    LET named == SelectSeq(Children(t, i), LAMBDA k : t[k].elem /\ t[k].name = name)
    IN  IF named = <<>> THEN 0 ELSE Head(named)

RECURSIVE consist_has_locomotive(_, _)
RECURSIVE ScanChildren(_, _)

\* A bug the match could have: an unknown element name is skipped.
MatchChild_skip_unknown(t, c) ==
    IF t[c].name = "Datei" THEN is_wagon_locomotive(t[c])
    ELSE IF t[c].name = "FahrzeugInfo"
    THEN LET data == get_child(t, c, "Datei")
         IN  IF data = 0 THEN Err("MissingChild") ELSE is_wagon_locomotive(t[data])
    ELSE IF t[c].name = "FahrzeugVarianten" THEN consist_has_locomotive(t, c)
    ELSE Ok(FALSE)

\* The match on element.name in consist_has_locomotive: Ok(TRUE) where the arm
\* returns Ok(true), Ok(FALSE) where the loop goes on, Err where `?` or bail! leaves.
MatchChild(t, c) ==
    IF t[c].name = "Datei" THEN is_wagon_locomotive(t[c])
    ELSE IF t[c].name = "FahrzeugInfo"
    THEN LET data == get_child(t, c, "Datei")
         IN  IF data = 0 THEN Err("MissingChild") ELSE is_wagon_locomotive(t[data])
    ELSE IF t[c].name = "FahrzeugVarianten" THEN consist_has_locomotive(t, c)
    ELSE Err("UnrecognizedVariant")

\* The for loop of consist_has_locomotive over the remaining children.
ScanChildren(t, kids) ==
    IF kids = <<>> THEN Ok(FALSE)
    ELSE IF ~t[Head(kids)].elem THEN ScanChildren(t, Tail(kids))
    ELSE LET r == MatchChild(t, Head(kids))
         IN  IF ~r.ok \/ r.v THEN r ELSE ScanChildren(t, Tail(kids))

\* consist_has_locomotive on node i of t (0: the consist).
consist_has_locomotive(t, i) == ScanChildren(t, Children(t, i))

(***************************************************************************)
(* Documents.  A parsed file is [xml, zug, APBeschl, children]: whether     *)
(* Element::parse succeeds, whether the root has a child `Zug`, the `Zug`   *)
(* attribute `APBeschl` and the children of `Zug` in document order.  A     *)
(* child of `Zug` is [elem, name, Ank, Abf, consist]; `consist` holds the   *)
(* nodes below a `FahrzeugVarianten` child.                                 *)
(***************************************************************************)
Doc(zug, apbeschl, children) ==
    [xml |-> TRUE, zug |-> zug, APBeschl |-> apbeschl, children |-> children]

Garbage == [xml |-> FALSE, zug |-> FALSE, APBeschl |-> Absent, children |-> <<>>]

ZugChild(elem, name, ankunft, abfahrt, consist) ==
    [elem |-> elem, name |-> name, Ank |-> ankunft, Abf |-> abfahrt, consist |-> consist]

FahrplanEintrag(ankunft, abfahrt) == ZugChild(TRUE, "FahrplanEintrag", ankunft, abfahrt, <<>>)

FahrzeugVarianten(consist) == ZugChild(TRUE, "FahrzeugVarianten", Absent, Absent, consist)

TextNode == ZugChild(FALSE, "", Absent, Absent, <<>>)

\* The indices of the child elements of `Zug` with that name, in document order.
ChildrenNamed(t, name) ==
    SelectSeq([k \in 1..Len(t.children) |-> k],
              LAMBDA k : t.children[k].elem /\ t.children[k].name = name)

\* The result of a step on the tree: Ok(()) or Err, and the tree as the step left it.
StepOk(t) == [ok |-> TRUE, err |-> "", tree |-> t]

StepErr(e, t) == [ok |-> FALSE, err |-> e, tree |-> t]

\* A bug modify_multiplier could have: the two multipliers are swapped.
modify_multiplier_swapped(t, loc_multiplier, mu_multiplier) ==
    IF ~t.zug THEN StepErr("MissingTag", t)
    ELSE LET consists == ChildrenNamed(t, "FahrzeugVarianten")
         IN  IF consists = <<>> THEN StepErr("MissingTag", t)
             ELSE LET has_locomotive ==
                          consist_has_locomotive(t.children[Head(consists)].consist, 0)
                  IN  IF ~has_locomotive.ok THEN StepErr(has_locomotive.err, t)
                      ELSE IF t.APBeschl.st = "absent" THEN StepErr("MissingAttribute", t)
                      ELSE IF t.APBeschl.st = "bad" THEN StepErr("InvalidNumber", t)
                      ELSE LET multiplier == IF has_locomotive.v THEN mu_multiplier
                                             ELSE loc_multiplier
                           IN  StepOk([t EXCEPT !.APBeschl =
                                          Str(RMul(multiplier, t.APBeschl.v))])

\* modify_multiplier
modify_multiplier(t, loc_multiplier, mu_multiplier) ==
    IF ~t.zug THEN StepErr("MissingTag", t)
    ELSE LET consists == ChildrenNamed(t, "FahrzeugVarianten")
         IN  IF consists = <<>> THEN StepErr("MissingTag", t)
             ELSE LET has_locomotive ==
                          consist_has_locomotive(t.children[Head(consists)].consist, 0)
                  IN  IF ~has_locomotive.ok THEN StepErr(has_locomotive.err, t)
                      ELSE IF t.APBeschl.st = "absent" THEN StepErr("MissingAttribute", t)
                      ELSE IF t.APBeschl.st = "bad" THEN StepErr("InvalidNumber", t)
                      ELSE LET multiplier == IF has_locomotive.v THEN loc_multiplier
                                             ELSE mu_multiplier
                           IN  StepOk([t EXCEPT !.APBeschl =
                                          Str(RMul(multiplier, t.APBeschl.v))])

\* Lines 191-197 of delay_entry on the attribute value `ankunft`: Err leaves it
\* as it is.
DelayArrival(ankunft, seconds) ==
    LET arrival == parse_from_str(ankunft)
    IN  IF ~arrival.ok THEN [ok |-> FALSE, v |-> ankunft]
        ELSE [ok |-> TRUE, v |-> format(checked_add_signed(arrival.v, seconds))]

\* A bug delay_entry could have: entries without `Ank` are passed over.
delay_entry_skipping(t, seconds) ==
    IF ~t.zug THEN StepErr("MissingTag", t)
    ELSE LET entries == ChildrenNamed(t, "FahrplanEintrag")
             withAnk == SelectSeq(entries, LAMBDA k : t.children[k].Ank.st # "absent")
         IN  IF entries = <<>> THEN StepErr("MissingEntry", t)
             ELSE IF withAnk = <<>> THEN StepErr("MissingAttribute", t)
             ELSE LET e == Head(withAnk)
                      delayed == DelayArrival(t.children[e].Ank, seconds)
                  IN  IF ~delayed.ok THEN StepErr("ParseError", t)
                      ELSE StepOk([t EXCEPT !.children[e].Ank = delayed.v])

\* delay_entry: the loop returns at the first `FahrplanEintrag` it meets.
delay_entry(t, seconds) ==
    IF ~t.zug THEN StepErr("MissingTag", t)
    ELSE LET entries == ChildrenNamed(t, "FahrplanEintrag")
         IN  IF entries = <<>> THEN StepErr("MissingEntry", t)
             ELSE LET e == Head(entries)
                  IN  IF t.children[e].Ank.st = "absent" THEN StepErr("MissingAttribute", t)
                      ELSE LET delayed == DelayArrival(t.children[e].Ank, seconds)
                           IN  IF ~delayed.ok THEN StepErr("ParseError", t)
                               ELSE StepOk([t EXCEPT !.children[e].Ank = delayed.v])

\* A bug the wait computation could have: the cap is left out.
delayed_wait_time_uncapped(original_wait_time, factor, max_wait_time) ==
    TruncI64(RMul(RInt(original_wait_time), factor))

\* TimeDelta::seconds((original_wait_time.num_seconds() as f32 * factor) as i64)
\*     .min(max_wait_time)
delayed_wait_time(original_wait_time, factor, max_wait_time) ==
    Min(TruncI64(RMul(RInt(original_wait_time), factor)), max_wait_time)

\* The body of delay_departures' loop for one `FahrplanEintrag` e: Ok with the
\* entry as the body leaves it, or Err.
DelayDeparture(e, factor, max_wait_time) ==
    IF e.Ank.st = "absent" \/ e.Abf.st = "absent" THEN [ok |-> TRUE, e |-> e]
    ELSE LET arrival == parse_from_str(e.Ank)
             departure == parse_from_str(e.Abf)
         IN  IF ~arrival.ok \/ ~departure.ok THEN [ok |-> FALSE, e |-> e]
             ELSE LET wait == delayed_wait_time(SubSeconds(departure.v, arrival.v),
                                                factor, max_wait_time)
                  IN  [ok |-> TRUE,
                       e |-> [e EXCEPT !.Abf = format(checked_add_signed(departure.v, wait))]]

\* delay_departures' loop from child k on: an Err leaves the children before k
\* as the loop changed them.
RECURSIVE DelayDeparturesFrom(_, _, _, _)
DelayDeparturesFrom(t, k, factor, max_wait_time) ==
    IF k > Len(t.children) THEN StepOk(t)
    ELSE IF ~(t.children[k].elem /\ t.children[k].name = "FahrplanEintrag")
    THEN DelayDeparturesFrom(t, k + 1, factor, max_wait_time)
    ELSE LET r == DelayDeparture(t.children[k], factor, max_wait_time)
         IN  IF ~r.ok THEN StepErr("ParseError", t)
             ELSE DelayDeparturesFrom([t EXCEPT !.children[k] = r.e], k + 1,
                                      factor, max_wait_time)

\* delay_departures
delay_departures(t, factor, max_wait_time) ==
    IF ~t.zug THEN StepErr("MissingTag", t)
    ELSE DelayDeparturesFrom(t, 1, factor, max_wait_time)

(***************************************************************************)
(* Variables a specification does not use keep these values.                *)
(***************************************************************************)
IdleBatch ==
    /\ cmd = Idle /\ dir = <<>> /\ disk = <<>> /\ idx = 0 /\ pc = "idle"
    /\ tree = Idle /\ steps = <<>> /\ calls = <<>> /\ outcome = <<>>
    /\ reported = <<>> /\ persisted = <<>> /\ rnd = Idle /\ zsw = <<>>

IdleFn == arg = Idle /\ ret = Idle

IdleTime == t0 = Idle /\ dt = Idle /\ ank = Idle /\ incs = <<>> /\ delays = <<>>

(***************************************************************************)
(* SpecConsist: a consist of at most MaxNodes nodes is read, then           *)
(* consist_has_locomotive is called on it.                                  *)
(***************************************************************************)
InitConsist ==
    /\ IdleBatch /\ IdleTime
    /\ arg = [fn |-> "consist_has_locomotive", consist |-> <<>>]
    /\ ret = Idle

\* Element::parse reads the next node of the consist, in document order.
ParseConsistNode ==
    /\ arg.fn = "consist_has_locomotive"
    /\ ret = Idle
    /\ Len(arg.consist) < MaxNodes
    /\ \E k \in NodeKinds, d \in NextDepths(arg.consist) :
          arg' = [arg EXCEPT !.consist = Append(@, [k EXCEPT !.depth = d])]
    /\ UNCHANGED <<ret, batchVars, timeVars>>

CallConsistHasLocomotive ==
    /\ arg.fn = "consist_has_locomotive"
    /\ ret = Idle
    /\ ret' = consist_has_locomotive(arg.consist, 0)
    /\ UNCHANGED <<arg, batchVars, timeVars>>

NextConsist == ParseConsistNode \/ CallConsistHasLocomotive

SpecConsist == InitConsist /\ [][NextConsist]_vars

\* ---- what the claims about consists speak of, stated on the node sequence ----
ConsistCalled == arg # Idle /\ arg.fn = "consist_has_locomotive" /\ ret # Idle

HasLok(n) == n.elem /\ n.Dateiname.st = "ok" /\ Contains(n.Dateiname.v, lok)

Vocabulary == {"Datei", "FahrzeugInfo", "FahrzeugVarianten"}

Unrecognized(n) == n.elem /\ n.name \notin Vocabulary

\* The proper ancestors of node i.
Ancestors(t, i) ==
    { j \in 1..(i - 1) : t[j].depth < t[i].depth
                          /\ \A k \in (j + 1)..i : t[k].depth > t[j].depth }

\* Node i is a child of the consist or of a variant group nested in it.
InGroup(t, i) ==
    \A j \in Ancestors(t, i) : t[j].elem /\ t[j].name = "FahrzeugVarianten"

\* Node i is the first `Datei` child of a `FahrzeugInfo` that is InGroup.
FirstDateiOfInfo(t, i) ==
    /\ t[i].elem /\ t[i].name = "Datei"
    /\ \E p \in Ancestors(t, i) :
        /\ t[p].depth = t[i].depth - 1
        /\ t[p].elem /\ t[p].name = "FahrzeugInfo" /\ InGroup(t, p)
        /\ \A k \in (p + 1)..(i - 1) :
              ~(t[k].depth = t[i].depth /\ t[k].elem /\ t[k].name = "Datei")

\* Node i is a vehicle reference the consist rules name.
Vehicle(t, i) ==
    \/ t[i].elem /\ t[i].name = "Datei" /\ InGroup(t, i)
    \/ FirstDateiOfInfo(t, i)

\* The vehicle of group member i: itself, or the first `Datei` of a `FahrzeugInfo`.
VehicleOf(t, i) ==
    IF t[i].name = "Datei" THEN {i}
    ELSE { k \in (i + 1)..Len(t) : FirstDateiOfInfo(t, k) /\ i \in Ancestors(t, k) }

\* Group member i neither ends the search nor fails it.
Passes(t, i) ==
    \/ ~t[i].elem
    \/ t[i].name = "FahrzeugVarianten"
    \/ /\ t[i].name \in {"Datei", "FahrzeugInfo"}
       /\ VehicleOf(t, i) # {}
       /\ \A k \in VehicleOf(t, i) : t[k].Dateiname.st = "ok" /\ ~HasLok(t[k])

\* C3, as stated: the result is true iff some `Dateiname` anywhere in the tree
\* contains "lok".
C3_AnyDateinameAnywhere ==
    ConsistCalled =>
        ((ret.ok /\ ret.v) <=> \E i \in 1..Len(arg.consist) : HasLok(arg.consist[i]))

\* C3, amended: when consist_has_locomotive returns a value, the value is true iff
\* the `Dateiname` of some vehicle contains "lok", the vehicles being the `Datei`
\* children of the consist and of the variant groups nested in it at any depth,
\* and the first `Datei` child of each `FahrzeugInfo` among those children; a
\* consist without vehicles gives false.
C3_TrueIffVehicleHasLok ==
    (ConsistCalled /\ ret.ok) =>
        (ret.v <=> \E i \in 1..Len(arg.consist) :
                        Vehicle(arg.consist, i) /\ HasLok(arg.consist[i]))

\* C3's case: a locomotive two groups deep is found.
C3_Witness ==
    /\ ConsistCalled /\ ret.ok /\ ret.v
    /\ \E i \in 1..Len(arg.consist) :
          arg.consist[i].depth = 3 /\ HasLok(arg.consist[i]) /\ Vehicle(arg.consist, i)
    /\ \A i \in 1..Len(arg.consist) : arg.consist[i].depth < 3 => ~HasLok(arg.consist[i])

\* C4, as stated: a tree with an element outside the vocabulary, at any level and
\* position, always fails with the unrecognized-variant error.
C4_AnyUnrecognizedFails ==
    (ConsistCalled /\ \E i \in 1..Len(arg.consist) : Unrecognized(arg.consist[i]))
        => ret = Err("UnrecognizedVariant")

\* C4, amended: consist_has_locomotive fails with the unrecognized-variant error
\* exactly when an element outside the vocabulary is a child of the consist or of a
\* variant group nested in it, and every such child before it in document order is
\* a well-formed vehicle that is no locomotive, a variant group or a non-element
\* node.
C4_FailsIffUnrecognizedReached ==
    ConsistCalled =>
        (ret = Err("UnrecognizedVariant") <=>
            \E i \in 1..Len(arg.consist) :
                /\ Unrecognized(arg.consist[i]) /\ InGroup(arg.consist, i)
                /\ \A j \in 1..(i - 1) : InGroup(arg.consist, j) => Passes(arg.consist, j))

\* C4's case: the unknown element sits in a nested group, behind a wagon.
C4_Witness ==
    /\ ConsistCalled /\ ret = Err("UnrecognizedVariant")
    /\ \E i \in 1..Len(arg.consist) :
          /\ Unrecognized(arg.consist[i]) /\ arg.consist[i].depth >= 2
          /\ InGroup(arg.consist, i)
          /\ \E j \in 1..(i - 1) : arg.consist[j].name = "Datei"

(***************************************************************************)
(* SpecTime: seconds are added to one time value, by Datetime::inc_seconds  *)
(* (src/date.rs) and by the chrono arithmetic of delay_entry (src/main.rs). *)
(***************************************************************************)
\* Ends of months and years, a leap day, a plain day; times near and far from
\* midnight; one string whose fields FromStr accepts without normalising.
TimeInputs ==
    { Datetime(d[1], d[2], d[3], t[1], t[2], t[3]) :
        d \in { <<2024, 1, 31>>, <<2024, 2, 28>>, <<2023, 2, 28>>, <<2023, 12, 31>> },
        t \in { <<0, 0, 0>>, <<12, 30, 15>>, <<23, 59, 30>>, <<23, 59, 50>> } }
    \cup { Datetime(2024, 2, 29, 10, 70, 75) }

Increments == {0, 10, 20, 60, 3600, 86400}

InitTime ==
    /\ IdleBatch /\ IdleFn
    /\ t0 \in TimeInputs
    /\ dt = t0
    /\ ank = Str(t0)
    /\ incs = <<>>
    /\ delays = <<>>

\* dt.inc_seconds(inc)
IncSeconds ==
    /\ t0 # Idle
    /\ Len(incs) < MaxIncs
    /\ \E inc \in Increments :
          /\ dt' = inc_seconds(dt, inc)
          /\ incs' = Append(incs, inc)
    /\ UNCHANGED <<t0, ank, delays, batchVars, fnVars>>

\* The arrival is delayed once more.
DelayAnk ==
    /\ t0 # Idle
    /\ Len(delays) < MaxIncs
    /\ \E seconds \in Increments :
          /\ DelayArrival(ank, seconds).ok
          /\ ank' = DelayArrival(ank, seconds).v
          /\ delays' = Append(delays, seconds)
    /\ UNCHANGED <<t0, dt, incs, batchVars, fnVars>>

NextTime == IncSeconds \/ DelayAnk

SpecTime == InitTime /\ [][NextTime]_vars

RECURSIVE SumSeq(_)
SumSeq(q) == IF q = <<>> THEN 0 ELSE Head(q) + SumSeq(Tail(q))

\* ---- the calendar, stated on the fields ----
NextDay(t) ==
    IF t.day < DaysInMonth(t.year, t.month) THEN [t EXCEPT !.day = t.day + 1]
    ELSE IF t.month < 12 THEN [t EXCEPT !.month = t.month + 1, !.day = 1]
    ELSE [t EXCEPT !.year = t.year + 1, !.month = 1, !.day = 1]

RECURSIVE DaysLater(_, _)
DaysLater(t, n) == IF n = 0 THEN t ELSE DaysLater(NextDay(t), n - 1)

SecondOfDay(t) == t.hour * 3600 + t.minute * 60 + t.second

\* t plus n seconds with a full calendar carry.
CalendarAdd(t, n) ==
    LET total == SecondOfDay(t) + n
        tod == total % 86400
    IN  [DaysLater(t, total \div 86400) EXCEPT
            !.hour = tod \div 3600, !.minute = (tod % 3600) \div 60, !.second = tod % 60]

\* C5, as stated: adding seconds to a time value carries into the date; the
\* result of Datetime::inc_seconds is the calendar sum, never held in the same date.
C5_IncSecondsCarriesDate ==
    (t0 # Idle /\ ValidFields(t0) /\ incs # <<>>) => dt = CalendarAdd(t0, SumSeq(incs))

\* The same statement for the arithmetic delay_entry performs (chrono).
DelayEntryCarriesDate ==
    (t0 # Idle /\ delays # <<>>) => ank = Str(CalendarAdd(t0, SumSeq(delays)))

\* C6: adding a seconds and then b seconds gives the time value that adding
\* a + b seconds in one call gives, for Datetime::inc_seconds and for the
\* addition of delay_entry.
C6_AddThenAddIsAddSum ==
    t0 # Idle =>
        /\ incs # <<>> => dt = inc_seconds(t0, SumSeq(incs))
        /\ delays # <<>> => ank = DelayArrival(Str(t0), SumSeq(delays)).v

\* C6's case: two non-zero additions, the second of which starts from a changed
\* value, on both representations.
C6_Witness ==
    /\ t0 # Idle
    /\ Len(incs) = 2 /\ incs[1] > 0 /\ incs[2] > 0
    /\ inc_seconds(t0, incs[1]) # t0 /\ dt # inc_seconds(t0, incs[1])
    /\ Len(delays) = 2 /\ delays[1] > 0 /\ delays[2] > 0
    /\ ank.v.day # t0.day

(***************************************************************************)
(* SpecEntry: delay_entry on a document with at most MaxEntries children of *)
(* `Zug`, with a non-zero delay.                                            *)
(***************************************************************************)
Arrival == Datetime(2024, 1, 31, 23, 58, 0)

\* All sequences of at most n members of kinds.
SeqsUpTo(kinds, n) == UNION { [1..m -> kinds] : m \in 0..n }

EntryChildKinds ==
    { FahrplanEintrag(a, b) :
        a \in {Absent, Bad, Str(Arrival)},
        b \in {Absent, Str(Datetime(2024, 1, 31, 23, 59, 30))} }
    \cup {TextNode, FahrzeugVarianten(<<>>)}

InitEntry ==
    /\ IdleBatch /\ IdleTime
    /\ arg \in { [fn |-> "delay_entry", tree |-> Doc(z, Absent, c), seconds |-> n] :
                   z \in BOOLEAN, c \in SeqsUpTo(EntryChildKinds, MaxEntries),
                   n \in {20, 86400} }
    /\ ret = Idle

CallDelayEntry ==
    /\ arg.fn = "delay_entry"
    /\ ret = Idle
    /\ ret' = delay_entry(arg.tree, arg.seconds)
    /\ UNCHANGED <<arg, batchVars, timeVars>>

NextEntry == CallDelayEntry

SpecEntry == InitEntry /\ [][NextEntry]_vars

EntryCalled == arg # Idle /\ arg.fn = "delay_entry" /\ ret # Idle

IsEntry(c) == c.elem /\ c.name = "FahrplanEintrag"

\* Child k is the first `FahrplanEintrag` of t that satisfies P.
FirstEntryWith(t, k, P(_)) ==
    /\ k \in 1..Len(t.children)
    /\ IsEntry(t.children[k]) /\ P(t.children[k])
    /\ \A j \in 1..(k - 1) : ~(IsEntry(t.children[j]) /\ P(t.children[j]))

HasAnk(c) == c.Ank.st # "absent"

AnyEntry(c) == TRUE

\* t with the `Ank` of child k moved n seconds on in the calendar, nothing else
\* changed.
WithAnkDelayed(t, k, n) ==
    [t EXCEPT !.children[k].Ank = Str(CalendarAdd(t.children[k].Ank.v, n))]

\* C8, as stated: the first `FahrplanEintrag` that has an `Ank` is the one changed,
\* entries without `Ank` before it are skipped without error, and the missing-entry
\* error arises only when `Zug` has no `FahrplanEintrag` at all.
C8_FirstEntryWithAnk ==
    (EntryCalled /\ arg.tree.zug) =>
        /\ \A k \in 1..Len(arg.tree.children) :
              (FirstEntryWith(arg.tree, k, HasAnk) /\ arg.tree.children[k].Ank.st = "ok")
                  => ret = StepOk(WithAnkDelayed(arg.tree, k, arg.seconds))
        /\ (~ret.ok /\ ret.err = "MissingEntry")
              <=> ~\E k \in 1..Len(arg.tree.children) : IsEntry(arg.tree.children[k])

\* C8, amended: delay_entry with a non-zero delay changes the `Ank` of the first
\* `FahrplanEintrag` child of `Zug` in document order; when that entry has no
\* `Ank` it fails with the missing-attribute error and later entries are not
\* looked at; it fails with the missing-entry error only when `Zug` has no
\* `FahrplanEintrag` at all; no other entry and no other attribute is changed,
\* and a failure changes nothing.
C8_FirstEntry ==
    (EntryCalled /\ arg.tree.zug) =>
        /\ \A k \in 1..Len(arg.tree.children) :
              FirstEntryWith(arg.tree, k, AnyEntry) =>
                  /\ arg.tree.children[k].Ank.st = "ok"
                        => ret = StepOk(WithAnkDelayed(arg.tree, k, arg.seconds))
                  /\ arg.tree.children[k].Ank.st = "absent"
                        => ret = StepErr("MissingAttribute", arg.tree)
        /\ (~ret.ok /\ ret.err = "MissingEntry")
              <=> ~\E k \in 1..Len(arg.tree.children) : IsEntry(arg.tree.children[k])
        /\ ~ret.ok => ret.tree = arg.tree

\* C8's case: the first entry, behind a text node, has an `Ank`, a later entry has
\* one too, and the delay carries the first into the next day.
C8_Witness ==
    /\ EntryCalled /\ ret.ok
    /\ \E k \in 2..Len(arg.tree.children) :
          /\ FirstEntryWith(arg.tree, k, AnyEntry)
          /\ ret.tree.children[k].Ank = Str(Datetime(2024, 2, 1, 23, 58, 0))
          /\ \E j \in (k + 1)..Len(arg.tree.children) :
                HasAnk(arg.tree.children[j]) /\ IsEntry(arg.tree.children[j])

(***************************************************************************)
(* SpecDepartures: delay_departures on a document with at most MaxEntries   *)
(* children of `Zug`.                                                       *)
(***************************************************************************)
\* Departures 90 s and 420 s after the arrival (the second one on the next day),
\* and one 9 s before it.
Departures ==
    { Datetime(2024, 1, 31, 23, 59, 30), Datetime(2024, 2, 1, 0, 5, 0),
      Datetime(2024, 1, 31, 23, 57, 51) }

DepartureChildKinds ==
    { FahrplanEintrag(a, b) :
        a \in {Absent, Str(Arrival)},
        b \in {Absent, Bad} \cup { Str(d) : d \in Departures } }
    \cup {TextNode}

\* departures_delay_factor
Factors == { Rat(1, 2), Rat(3, 2), Rat(7, 4), Rat(4, 1) }

\* (departures_max_delay * 60.0) as i64, for 6 and 2 minutes
MaxWaits == {360, 120}

InitDepartures ==
    /\ IdleBatch /\ IdleTime
    /\ arg \in { [fn |-> "delay_departures", tree |-> Doc(TRUE, Absent, c),
                  factor |-> f, max_wait_time |-> m] :
                   c \in SeqsUpTo(DepartureChildKinds, MaxEntries),
                   f \in Factors, m \in MaxWaits }
    /\ ret = Idle

CallDelayDepartures ==
    /\ arg.fn = "delay_departures"
    /\ ret = Idle
    /\ ret' = delay_departures(arg.tree, arg.factor, arg.max_wait_time)
    /\ UNCHANGED <<arg, batchVars, timeVars>>

NextDepartures == CallDelayDepartures

SpecDepartures == InitDepartures /\ [][NextDepartures]_vars

DeparturesCalled == arg # Idle /\ arg.fn = "delay_departures" /\ ret # Idle

HasBoth(c) == IsEntry(c) /\ c.Ank.st # "absent" /\ c.Abf.st # "absent"

\* The seconds from the time string a to the time string b, counted day by day
\* on the calendar (a not after b's day + 1).
RECURSIVE SecondsBetween(_, _)
SecondsBetween(a, b) ==
    IF <<a.year, a.month, a.day>> = <<b.year, b.month, b.day>>
    THEN SecondOfDay(b) - SecondOfDay(a)
    ELSE 86400 + SecondsBetween(NextDay(a), b)

\* a to b in seconds, in either order.
Elapsed(a, b) ==
    LET before == \/ <<a.year, a.month, a.day>> = <<b.year, b.month, b.day>>
                  \/ a.year < b.year
                  \/ a.year = b.year /\ a.month < b.month
                  \/ a.year = b.year /\ a.month = b.month /\ a.day < b.day
    IN  IF before THEN SecondsBetween(a, b) ELSE -SecondsBetween(b, a)

\* min(wait * f, m) in whole seconds, truncated toward zero.
ScaledWait(wait, f, m) ==
    LET x == wait * f.n
        whole == IF x >= 0 THEN x \div f.d ELSE -((-x) \div f.d)
    IN  IF whole < m THEN whole ELSE m

\* C7: after delay_departures with factor f and maximum m, every entry with both
\* `Ank` and `Abf` has new Abf - old Abf = min((old Abf - Ank) * f, m) in whole
\* seconds after truncation and is otherwise unchanged; every other child of
\* `Zug` is unchanged; an entry that lacks `Ank` or `Abf` is no error.
C7_DepartureShift ==
    DeparturesCalled =>
        /\ ret.ok <=> \A k \in 1..Len(arg.tree.children) :
                          HasBoth(arg.tree.children[k]) =>
                              /\ parse_from_str(arg.tree.children[k].Ank).ok
                              /\ parse_from_str(arg.tree.children[k].Abf).ok
        /\ ret.ok =>
              /\ Len(ret.tree.children) = Len(arg.tree.children)
              /\ \A k \in 1..Len(arg.tree.children) :
                    LET old == arg.tree.children[k]
                        new == ret.tree.children[k]
                    IN  IF HasBoth(old)
                        THEN /\ new.Abf.st = "ok" /\ ValidFields(new.Abf.v)
                             /\ Elapsed(old.Abf.v, new.Abf.v)
                                  = ScaledWait(Elapsed(old.Ank.v, old.Abf.v),
                                               arg.factor, arg.max_wait_time)
                             /\ new = [old EXCEPT !.Abf = new.Abf]
                        ELSE new = old

\* C7's case: an entry without `Abf` is followed by one whose wait is capped at the
\* maximum, and another entry's scaled wait has a fraction that is cut.
C7_Witness ==
    /\ DeparturesCalled /\ ret.ok
    /\ \E j, k, l \in 1..Len(arg.tree.children) :
          /\ j < k
          /\ IsEntry(arg.tree.children[j]) /\ arg.tree.children[j].Abf.st = "absent"
          /\ HasBoth(arg.tree.children[k])
          /\ Elapsed(arg.tree.children[k].Abf.v, ret.tree.children[k].Abf.v)
                = arg.max_wait_time
          /\ HasBoth(arg.tree.children[l])
          /\ (Elapsed(arg.tree.children[l].Ank.v, arg.tree.children[l].Abf.v)
                * arg.factor.n) % arg.factor.d # 0

(***************************************************************************)
(* modify and modify_file.  The batch loop takes the directory entries in   *)
(* order; modify_file is followed block by block: pc is "loop" between two  *)
(* files, and "multiplier", "delay", "departures" or "write" before the     *)
(* block of that name.                                                      *)
(***************************************************************************)
None == [some |-> FALSE]

Some(v) == [some |-> TRUE, v |-> v]

\* The Modify arguments the mutation steps read.
Modify(multiplier, friction, delay_probability, delay_amplitude, bell_mean, bell_deviation, deny_early, departures_delay_factor) ==
    [multiplier |-> multiplier, friction |-> friction,
     loc_needed |-> Rat(2, 5), mu_needed |-> Rat(1, 4),
     delay_probability |-> delay_probability, delay_amplitude |-> delay_amplitude,
     delay_lambda |-> RInt(3),
     bell_mean |-> bell_mean, bell_deviation |-> bell_deviation,
     deny_early |-> deny_early,
     departures_delay_factor |-> departures_delay_factor,
     departures_max_delay |-> RInt(6)]

\* A bug the multipliers could have: the cap is applied after the global multiplier.
Multipliers_capped_last(m) ==
    LET g == IF m.multiplier.some THEN m.multiplier.v ELSE RInt(1)
    IN  [loc |-> RMin(RMul(RDiv(m.friction, m.loc_needed), g), RInt(1)),
         mu |-> RMin(RMul(RDiv(m.friction, m.mu_needed), g), RInt(1))]

\* loc_multiplier and mu_multiplier of modify_file.
Multipliers(m) ==
    LET loc == RMin(RDiv(m.friction, m.loc_needed), RInt(1))
        mu == RMin(RDiv(m.friction, m.mu_needed), RInt(1))
    IN  IF m.multiplier.some
        THEN [loc |-> RMul(loc, m.multiplier.v), mu |-> RMul(mu, m.multiplier.v)]
        ELSE [loc |-> loc, mu |-> mu]

\* exp(x) - 1 for x >= 0, both in thousandths: the Taylor series from term k on,
\* each term cut to whole thousandths.
RECURSIVE ExpM1Terms(_, _, _)
ExpM1Terms(x, term, k) ==
    IF term = 0 THEN 0 ELSE term + ExpM1Terms(x, (term * x) \div ((k + 1) * 1000), k + 1)

\* (x.exp() - 1.0)
ExpM1(x) == Rat(ExpM1Terms((x.n * 1000) \div x.d, (x.n * 1000) \div x.d, 1), 1000)

\* A bug the coin flip could have: `val <= p`.
Triggered_le(val, p) == ~RLess(p, val)

\* val < p
Triggered(val, p) == RLess(val, p)

\* The values a uniform draw of [0, 1) takes in the model.
Draws == { RInt(0), Rat(1, 1000), Rat(1, 2), Rat(999, 1000) }

\* The values a sample of the normal distribution takes in the model, in minutes.
BellSamples == { RInt(-2), RInt(0), Rat(1, 2) }

\* `minutes` of the delay block for the draws val, r and the sample b.
DelayMinutes(m, val, r, b) ==
    LET a == IF m.delay_probability.some /\ Triggered(val, m.delay_probability.v)
             THEN RMul(m.delay_amplitude, ExpM1(RMul(m.delay_lambda, r)))
             ELSE RInt(0)
        ab == IF m.bell_mean.some THEN RAdd(a, b) ELSE a
    IN  IF m.deny_early THEN RMax(ab, RInt(0)) ELSE ab

\* A bug the loop could have: the first failure ends the batch.
ReportFailure_ends_batch(i) ==
    /\ outcome' = [outcome EXCEPT ![i] = "err"]
    /\ reported' = Append(reported, i)
    /\ tree' = Idle
    /\ pc' = "loop"
    /\ idx' = Len(dir)

\* modify_file returned Err for file i: inspect_err reports it, the result is
\* dropped (`let _ =`) and the loop goes on behind file i.
ReportFailure(i) ==
    /\ outcome' = [outcome EXCEPT ![i] = "err"]
    /\ reported' = Append(reported, i)
    /\ tree' = Idle
    /\ pc' = "loop"
    /\ idx' = i

Call(fn, ok) == [fn |-> fn, ok |-> ok]

AddStep(i, fn, ok) == [steps EXCEPT ![i] = Append(@, Call(fn, ok))]

NoDraws == [drawn |-> FALSE]

\* The for loop of modify takes the next directory entry: a file without the
\* extension `trn` is passed over; on any other modify_file is called, which
\* begins with read_file.
ModifyLoop ==
    /\ pc = "loop"
    /\ idx < Len(dir)
    /\ rnd' = NoDraws
    /\ IF dir[idx + 1] # "trn"
       THEN idx' = idx + 1 /\ UNCHANGED <<pc, tree, steps, calls, outcome, reported>>
       ELSE /\ calls' = [calls EXCEPT ![idx + 1] = @ + 1]
            /\ steps' = AddStep(idx + 1, "read_file", disk[idx + 1].xml)
            /\ IF disk[idx + 1].xml
               THEN /\ tree' = disk[idx + 1]
                    /\ pc' = "multiplier"
                    /\ idx' = idx + 1
                    /\ UNCHANGED <<outcome, reported>>
               ELSE ReportFailure(idx + 1)
    /\ UNCHANGED <<cmd, dir, disk, persisted, zsw, fnVars, timeVars>>

\* The block "multiplier" of modify_file.
StepMultiplier ==
    /\ pc = "multiplier"
    /\ LET m == Multipliers(cmd)
           r == modify_multiplier(tree, m.loc, m.mu)
       IN  IF m.loc = RInt(1) /\ m.mu = RInt(1)
           THEN pc' = "delay" /\ UNCHANGED <<tree, steps, outcome, reported, idx>>
           ELSE /\ steps' = AddStep(idx, "modify_multiplier", r.ok)
                /\ IF r.ok
                   THEN tree' = r.tree /\ pc' = "delay"
                        /\ UNCHANGED <<outcome, reported, idx>>
                   ELSE ReportFailure(idx)
    /\ UNCHANGED <<cmd, dir, disk, calls, persisted, rnd, zsw, fnVars, timeVars>>

\* The block "delay entry" of modify_file.  The second uniform draw is made only
\* when the first is below the probability; Normal::new fails for a negative
\* standard deviation.
StepDelay ==
    /\ pc = "delay"
    /\ \E val \in Draws, r \in Draws, b \in BellSamples :
          LET coin == cmd.delay_probability.some
              hit == coin /\ Triggered(val, cmd.delay_probability.v)
              bad == cmd.bell_mean.some /\ RLess(cmd.bell_deviation, RInt(0))
              seconds == TruncU32(RMul(DelayMinutes(cmd, val, r, b), RInt(60)))
              d == delay_entry(tree, seconds)
          IN  /\ rnd' = [drawn |-> TRUE,
                         val |-> IF coin THEN val ELSE RInt(0),
                         r |-> IF hit THEN r ELSE RInt(0),
                         hit |-> hit,
                         b |-> IF cmd.bell_mean.some /\ ~bad THEN b ELSE RInt(0),
                         seconds |-> IF bad THEN 0 ELSE seconds]
              /\ IF bad
                 THEN steps' = AddStep(idx, "Normal::new", FALSE) /\ ReportFailure(idx)
                 ELSE IF seconds = 0
                 THEN pc' = "departures" /\ UNCHANGED <<tree, steps, outcome, reported, idx>>
                 ELSE /\ steps' = AddStep(idx, "delay_entry", d.ok)
                      /\ IF d.ok
                         THEN tree' = d.tree /\ pc' = "departures"
                              /\ UNCHANGED <<outcome, reported, idx>>
                         ELSE ReportFailure(idx)
    /\ UNCHANGED <<cmd, dir, disk, calls, persisted, zsw, fnVars, timeVars>>

\* A bug the block could have: the result of delay_departures is dropped.
StepDepartures_error_ignored ==
    /\ pc = "departures"
    /\ LET r == delay_departures(tree, cmd.departures_delay_factor,
                                 TruncI64(RMul(cmd.departures_max_delay, RInt(60))))
       IN  IF cmd.departures_delay_factor = RInt(1)
           THEN pc' = "write" /\ UNCHANGED <<tree, steps>>
           ELSE /\ steps' = AddStep(idx, "delay_departures", r.ok)
                /\ tree' = r.tree /\ pc' = "write"
    /\ UNCHANGED <<cmd, dir, disk, idx, calls, outcome, reported, persisted, rnd, zsw,
                   fnVars, timeVars>>

\* The block "delay_departure" of modify_file.
StepDepartures ==
    /\ pc = "departures"
    /\ LET r == delay_departures(tree, cmd.departures_delay_factor,
                                 TruncI64(RMul(cmd.departures_max_delay, RInt(60))))
       IN  IF cmd.departures_delay_factor = RInt(1)
           THEN pc' = "write" /\ UNCHANGED <<tree, steps, outcome, reported, idx>>
           ELSE /\ steps' = AddStep(idx, "delay_departures", r.ok)
                /\ IF r.ok
                   THEN tree' = r.tree /\ pc' = "write"
                        /\ UNCHANGED <<outcome, reported, idx>>
                   ELSE ReportFailure(idx)
    /\ UNCHANGED <<cmd, dir, disk, calls, persisted, rnd, zsw, fnVars, timeVars>>

\* write_file(path, tree) and the return of modify_file.  File::create or the
\* write may fail: the file is then as it was, or cut short.
StepWrite ==
    /\ pc = "write"
    /\ \E io \in {"ok", "create failed", "write failed"} :
          /\ steps' = AddStep(idx, "write_file", io = "ok")
          /\ IF io = "ok"
             THEN /\ disk' = [disk EXCEPT ![idx] = tree]
                  /\ persisted' = Append(persisted, idx)
                  /\ outcome' = [outcome EXCEPT ![idx] = "ok"]
                  /\ tree' = Idle /\ pc' = "loop"
                  /\ UNCHANGED <<reported, idx>>
             ELSE /\ disk' = [disk EXCEPT ![idx] = IF io = "write failed" THEN Garbage ELSE @]
                  /\ ReportFailure(idx)
                  /\ UNCHANGED persisted
    /\ UNCHANGED <<cmd, dir, calls, rnd, zsw, fnVars, timeVars>>

Next == ModifyLoop \/ StepMultiplier \/ StepDelay \/ StepDepartures \/ StepWrite

\* modify is called with one of configs on a directory that holds one of files
\* (a sequence of [ext, doc]).
InitModify(configs, files) ==
    /\ IdleFn /\ IdleTime
    /\ cmd \in configs
    /\ \E f \in files :
          /\ dir = [i \in 1..Len(f) |-> f[i].ext]
          /\ disk = [i \in 1..Len(f) |-> f[i].doc]
          /\ zsw = [i \in 1..Len(f) |-> f[i].doc]
          /\ steps = [i \in 1..Len(f) |-> <<>>]
          /\ calls = [i \in 1..Len(f) |-> 0]
          /\ outcome = [i \in 1..Len(f) |-> "none"]
    /\ idx = 0 /\ pc = "loop" /\ tree = Idle
    /\ reported = <<>> /\ persisted = <<>> /\ rnd = NoDraws

\* ---- documents and arguments of the runs ----
Departure == Datetime(2024, 1, 31, 23, 59, 30)

\* Two vehicles, neither a locomotive.
MultipleUnit ==
    << Node(TRUE, "Datei", Str(<<"L", "o", "k">>), 1),
       Node(TRUE, "FahrzeugInfo", Absent, 1),
       Node(TRUE, "Datei", Str(<<"w", "g">>), 2) >>

\* A wagon, and a locomotive inside a nested variant group.
LocomotiveHauled ==
    << Node(TRUE, "Datei", Str(<<"w", "g">>), 1),
       Node(TRUE, "FahrzeugVarianten", Absent, 1),
       Node(TRUE, "Datei", Str(<<"e", "l", "o", "k">>), 2) >>

\* An element outside the vocabulary.
Malformed == << Node(TRUE, "Fahrzeug", Absent, 1) >>

Timetable ==
    << FahrplanEintrag(Str(Arrival), Str(Departure)), TextNode,
       FahrplanEintrag(Str(Departure), Absent) >>

GoodDoc == Doc(TRUE, Str(Rat(3, 2)), <<FahrzeugVarianten(MultipleUnit)>> \o Timetable)

\* No `APBeschl`: modify_multiplier fails.
NoAccelerationDoc == Doc(TRUE, Absent, <<FahrzeugVarianten(MultipleUnit)>> \o Timetable)

\* No `FahrplanEintrag`: delay_entry fails.
NoEntryDoc == Doc(TRUE, Str(Rat(3, 2)), <<FahrzeugVarianten(LocomotiveHauled)>>)

\* A malformed `Abf` on the second entry: delay_departures fails behind the first.
BadDepartureDoc ==
    Doc(TRUE, Str(Rat(3, 2)),
        << FahrzeugVarianten(LocomotiveHauled),
           FahrplanEintrag(Str(Arrival), Str(Departure)),
           FahrplanEintrag(Str(Arrival), Bad) >>)

File(ext, doc) == [ext |-> ext, doc |-> doc]

(***************************************************************************)
(* Spec: the batch.  Directories of at most MaxFiles entries.               *)
(***************************************************************************)
BatchFiles ==
    { File("trn", d) : d \in {GoodDoc, NoAccelerationDoc, NoEntryDoc, BadDepartureDoc,
                               Garbage} }
    \cup { File("xml", GoodDoc) }

\* Every step enabled; no step enabled (the defaults); both delay sources, no
\* early entry; a standard deviation Normal::new rejects.
BatchConfigs ==
    { Modify(Some(RInt(2)), Rat(2, 5), Some(RInt(1)), RInt(360), None, RInt(5), FALSE,
             Rat(3, 2)),
      Modify(None, Rat(2, 5), None, RInt(360), None, RInt(5), FALSE, RInt(1)),
      Modify(None, Rat(1, 5), Some(Rat(1, 2)), RInt(1), Some(RInt(0)), RInt(5), TRUE,
             RInt(2)),
      Modify(None, Rat(2, 5), None, RInt(360), Some(RInt(0)), RInt(-1), FALSE, RInt(1)) }

Init == InitModify(BatchConfigs, SeqsUpTo(BatchFiles, MaxFiles))

Spec == Init /\ [][Next]_vars

\* ---- what the claims about the batch speak of ----
Files == 1..Len(dir)

Called(i, fn) == \E k \in 1..Len(steps[i]) : steps[i][k].fn = fn

Succeeded(i, fn) == \E k \in 1..Len(steps[i]) : steps[i][k] = Call(fn, TRUE)

\* The place of a call in modify_file's text.
Rank(fn) ==
    CASE fn = "read_file" -> 0
      [] fn = "modify_multiplier" -> 1
      [] fn = "Normal::new" -> 2
      [] fn = "delay_entry" -> 3
      [] fn = "delay_departures" -> 4
      [] fn = "write_file" -> 5

\* A call before write_file failed for file i.
StepFailed(i) ==
    \E k \in 1..Len(steps[i]) : ~steps[i][k].ok /\ steps[i][k].fn # "write_file"

\* modify_file's test before the acceleration modifier: one of the two
\* multipliers is not 1.
AccelerationEnabled ==
    Multipliers(cmd).loc # RInt(1) \/ Multipliers(cmd).mu # RInt(1)

\* C1: the calls of modify_file come in the order Acceleration Modifier, Delay
\* Model, Departure Adjuster, write; a failed call is the last call for its file;
\* after a failed step the file is not written and is on disk what it was before
\* the run; a file differs from what it was only once write_file was called, and
\* write_file is called only after every enabled step has succeeded.
C1_FailedStepEndsFileUnwritten ==
    \A i \in Files :
        /\ \A j, k \in 1..Len(steps[i]) :
              j < k => Rank(steps[i][j].fn) < Rank(steps[i][k].fn) /\ steps[i][j].ok
        /\ StepFailed(i) => ~Called(i, "write_file") /\ disk[i] = zsw[i]
        /\ disk[i] # zsw[i] => Called(i, "write_file")
        /\ Called(i, "write_file") =>
              /\ Succeeded(i, "read_file")
              /\ AccelerationEnabled => Succeeded(i, "modify_multiplier")
              /\ (rnd.drawn /\ idx = i /\ rnd.seconds # 0) => Succeeded(i, "delay_entry")
              /\ cmd.departures_delay_factor # RInt(1) => Succeeded(i, "delay_departures")

\* C1's case: delay_departures failed on a file after two steps had changed the
\* tree; the file is as it was, and the loop is back between two files.
C1_Witness ==
    /\ pc = "loop"
    /\ \E i \in Files :
          /\ steps[i] = << Call("read_file", TRUE), Call("modify_multiplier", TRUE),
                           Call("delay_entry", TRUE), Call("delay_departures", FALSE) >>
          /\ disk[i] = zsw[i] /\ disk[i] = BadDepartureDoc

Returned == pc = "loop" /\ idx = Len(dir)

Occurrences(q, x) == Cardinality({ k \in 1..Len(q) : q[k] = x })

\* C2: the loop passes every file with extension `trn` to modify_file exactly
\* once and no other file, whatever became of the files before it; when modify
\* returns, every failure has been reported once and every file whose modify_file
\* succeeded has been written by write_file.
C2_EveryEligibleFileOnce ==
    /\ \A i \in Files :
          /\ calls[i] = IF dir[i] = "trn" /\ i <= idx THEN 1 ELSE 0
          /\ outcome[i] = "err" <=> Occurrences(reported, i) = 1
          /\ outcome[i] = "ok" <=> Occurrences(persisted, i) = 1
          /\ outcome[i] = "ok" => Succeeded(i, "write_file")
          /\ Occurrences(reported, i) + Occurrences(persisted, i) <= 1
    /\ Returned => \A i \in Files : dir[i] = "trn" => outcome[i] \in {"ok", "err"}

\* C2's case: modify has returned; the first file failed and was reported, the
\* second was modified and written.
C2_Witness ==
    /\ Returned /\ Len(dir) = 2
    /\ outcome = <<"err", "ok">> /\ reported = <<1>> /\ persisted = <<2>>
    /\ calls = <<1, 1>>
    /\ disk[2] # zsw[2]

(***************************************************************************)
(* SpecDelay: one file, delay source A only.                                *)
(***************************************************************************)
\* The first entry has no `Ank`; the second has.
LateArrivalDoc ==
    Doc(TRUE, Str(Rat(3, 2)),
        << FahrplanEintrag(Absent, Absent), FahrplanEintrag(Str(Arrival), Str(Departure)) >>)

DelayConfigs ==
    { Modify(None, Rat(2, 5), Some(p), a, None, RInt(5), e, RInt(1)) :
        p \in {RInt(0), Rat(1, 2), RInt(1)}, a \in {RInt(1), RInt(360)}, e \in BOOLEAN }

InitDelay ==
    InitModify(DelayConfigs,
               { <<File("trn", d)>> : d \in {GoodDoc, NoEntryDoc, LateArrivalDoc} })

SpecDelay == InitDelay /\ [][Next]_vars

\* The delay block has run for the current file, with source A alone.
SourceAOnly == rnd.drawn /\ cmd.delay_probability.some /\ ~cmd.bell_mean.some

\* C9, as stated: with probability 1.0 a delay is applied (delay_entry is called)
\* for every pair of draws, with 0.0 never.
C9_AlwaysOrNever ==
    SourceAOnly =>
        /\ cmd.delay_probability.v = RInt(1) => Called(idx, "delay_entry")
        /\ cmd.delay_probability.v = RInt(0) => ~Called(idx, "delay_entry")

\* C9, amended: with delay_probability = 1.0 the coin flip succeeds for every first
\* draw, and a delay is applied exactly when the magnitude
\* amplitude * (exp(lambda * r) - 1) minutes of the second draw r amounts to at
\* least one whole second, which it does not for r = 0; with
\* delay_probability = 0.0 a delay is never applied.
C9_AppliedIffWholeSecond ==
    SourceAOnly =>
        /\ cmd.delay_probability.v = RInt(1) =>
              /\ rnd.hit
              /\ Called(idx, "delay_entry")
                    <=> ~RLess(RMul(RMul(cmd.delay_amplitude,
                                         ExpM1(RMul(cmd.delay_lambda, rnd.r))), RInt(60)),
                               RInt(1))
              /\ rnd.r = RInt(0) => ~Called(idx, "delay_entry")
        /\ cmd.delay_probability.v = RInt(0) =>
              ~rnd.hit /\ ~Called(idx, "delay_entry") /\ rnd.seconds = 0

\* C9's case: probability 1.0, a first draw just below 1, and a delay that moved
\* the arrival of the first entry.
C9_Witness ==
    /\ SourceAOnly /\ cmd.delay_probability.v = RInt(1)
    /\ rnd.val = Rat(999, 1000) /\ rnd.r # RInt(0)
    /\ pc = "departures"
    /\ Succeeded(idx, "delay_entry")
    /\ tree.children[2].Ank # zsw[idx].children[2].Ank

(***************************************************************************)
(* SpecAccel: one file, the acceleration modifier only.                     *)
(***************************************************************************)
AccelConfigs ==
    { Modify(g, f, None, RInt(360), None, RInt(5), FALSE, RInt(1)) :
        g \in {None, Some(RInt(1)), Some(RInt(2)), Some(Rat(1, 2))},
        f \in {Rat(1, 5), Rat(3, 10), Rat(2, 5), Rat(1, 2)} }

AccelDocs ==
    { Doc(TRUE, a, <<TextNode, FahrzeugVarianten(c), FahrzeugVarianten(LocomotiveHauled)>>
                   \o Timetable) :
        a \in {Absent, Bad, Str(Rat(3, 2)), Str(RInt(-2))},
        c \in {<<>>, MultipleUnit, LocomotiveHauled, Malformed} }
    \cup {Doc(FALSE, Str(Rat(3, 2)), <<>>), Doc(TRUE, Str(Rat(3, 2)), Timetable)}

InitAccel == InitModify(AccelConfigs, { <<File("trn", d)>> : d \in AccelDocs })

SpecAccel == InitAccel /\ [][Next]_vars

\* The consist of document d: the nodes below its first `FahrzeugVarianten`.
ConsistOf(d) == d.children[Head(ChildrenNamed(d, "FahrzeugVarianten"))].consist

\* Some vehicle of the consist is a locomotive.
HasLocomotiveVehicle(c) == \E k \in 1..Len(c) : Vehicle(c, k) /\ HasLok(c[k])

\* min(friction / needed, 1.0) * g * old for document d.
ScaledAcceleration(d) ==
    LET needed == IF HasLocomotiveVehicle(ConsistOf(d)) THEN cmd.loc_needed
                  ELSE cmd.mu_needed
        ratio == RDiv(cmd.friction, needed)
        capped == IF RLess(ratio, RInt(1)) THEN ratio ELSE RInt(1)
        g == IF cmd.multiplier.some THEN cmd.multiplier.v ELSE RInt(1)
    IN  RMul(RMul(capped, g), d.APBeschl.v)

\* C10: the acceleration modifier runs exactly when a capped friction ratio or the
\* global multiplier differs from 1, and when it has run the new `APBeschl` is
\* min(friction / needed, 1.0) * g * old, with needed chosen by the locomotive
\* classification of `Zug/FahrzeugVarianten`: the cap comes before the global
\* multiplier.
C10_CapThenGlobalMultiplier ==
    \A i \in Files :
        /\ Called(i, "modify_multiplier") => Succeeded(i, "read_file")
        /\ (Succeeded(i, "read_file") /\ ~(idx = i /\ pc = "multiplier"))
              => (Called(i, "modify_multiplier") <=> AccelerationEnabled)
        /\ (Succeeded(i, "modify_multiplier") /\ idx = i /\ pc = "delay")
              => tree = [zsw[i] EXCEPT !.APBeschl = Str(ScaledAcceleration(zsw[i]))]

\* C10's case: a multiple unit whose friction ratio 0.5 / 0.25 is capped at 1, and
\* a global multiplier of 2: the acceleration 1.5 becomes 3.
C10_Witness ==
    /\ pc = "delay" /\ Succeeded(idx, "modify_multiplier")
    /\ cmd.friction = Rat(1, 2) /\ cmd.multiplier = Some(RInt(2))
    /\ ~HasLocomotiveVehicle(ConsistOf(zsw[idx]))
    /\ zsw[idx].APBeschl = Str(Rat(3, 2)) /\ tree.APBeschl = Str(RInt(3))

====
